---- MODULE Spec2Model ----
(***************************************************************************)
(* Model of Pagoda's Teahaz chatroom window                                *)
(* (pagoda/applications/teahaz/chatroom.py): the conversation feed kept by *)
(* ChatroomWindow (conv_box, a sequence of MessageBox groups), the index   *)
(* of sent-but-unconfirmed messages (_sent_messages), and the operations   *)
(* add_message and _switch_channel that mutate them.                       *)
(* Further parts: the user's sends and their events, two add_message       *)
(* callbacks interleaved, an add_message callback interleaved with         *)
(* _switch_channel, and the application's windows                          *)
(* (pagoda/applications/application.py, teahaz/__init__.py, runtime.py).   *)
(* The errors reported to the host, and the host from its command line    *)
(* (pagoda/__main__.py) over its construction to its exit, follow.         *)
(***************************************************************************)
EXTENDS Integers, Sequences, FiniteSets, TLC

(* ---------------- bounds of the model ---------------- *)
\* longest sequence of messages passed to add_message within one channel view
MaxLog == 3
\* how many times the user submits the message field
MaxSends == 2
\* how many windows the manager creates, the menubar included
MaxWindows == 5
\* how many times the user presses Submit! on a login or create form
MaxSubmits == 2
\* how many errors the application reports
MaxErrors == 3
\* how many arguments the command line has
MaxArgs == 3
\* how many times Pagoda.exit is called
MaxExits == 2

(* ---------------- program constants ---------------- *)
\* the grouping window of add_message, in seconds
GROUP_WINDOW == 600

(* ---------------- value domains ---------------- *)
Uids == {"p1", "s42"}
Users == {"alice", "bob"}
Times == {0, 10, 700}
Channels == {"c1", "c2"}

\* chatroom.username, the local user
chatroom_username == "alice"

\* teahaz.Message, reduced to the fields the window reads; an undelivered
\* message is one the local user has sent
Message ==
    {m \in [uid : Uids, username : Users, send_time : Times, is_delivered : BOOLEAN] :
        ~m.is_delivered => m.username = chatroom_username}

\* Python's None for an Optional[Message]
None == [uid |-> "", username |-> "", send_time |-> 0, is_delivered |-> FALSE]

\* Python's None for an Optional[MessageBox]; a box is named by its index in conv_box
NoBox == 0

VARIABLES
    conv_box,           \* sequence of MessageBox, each the sequence MessageBox._messages
    _sent_messages,     \* uid -> [sent: Message, box: index into conv_box]
    _previous_box,      \* NoBox or index into conv_box
    _previous_message,  \* None or Message
    active_channel,     \* chatroom.active_channel
    header,             \* channel named by the header label
    raised,             \* exception that ended the last operation, "none" if it returned
    log                 \* history: messages passed to add_message in the current view

vars == <<conv_box, _sent_messages, _previous_box, _previous_message,
          active_channel, header, raised, log>>

\* sending: the input field, the threads started by _send_message and the transport
VARIABLES
    field,              \* value of the message InputField
    submits,            \* history: how many times ENTER was pressed in the field
    sends,              \* the send threads: [submit, text, channel, stage]
    transport           \* what chatroom.send handed to the transport: [submit, text]

sendvars == <<field, submits, sends, transport>>

\* two add_message callbacks on background threads, statement by statement
VARIABLES
    pc,                 \* thread -> "idle", "reconcile", "place", "remember", "done"
    tmsg,               \* thread -> the message its add_message was called with
    base                \* history: the window when the first callback began

concvars == <<pc, tmsg, base>>

\* the application and the window manager
VARIABLES
    windows,          \* the kind of every window created so far, by its number
    manager,          \* the windows the manager shows (WindowManager._windows)
    active_windows,   \* TeahazApplication.active_windows
    threads,          \* the forms whose submitted method has not returned yet
    started,          \* how many times Submit! was pressed
    app_raised,       \* the exception the last handler ended with
    stopped,          \* Pagoda.exit has run
    stop_closed       \* the windows that stop() closed

appvars == <<windows, manager, active_windows, threads, started, app_raised,
            stopped, stop_closed>>

\* the errors the application reports to the host
VARIABLES
    _previous_exception,   \* TeahazApplication._previous_exception, by type name
    reports,               \* the results passed to _error so far
    error_windows,         \* for every error window opened, the report it is for
    errors_shown           \* the error windows not dismissed yet

errvars == <<_previous_exception, reports, error_windows, errors_shown>>

\* the host from the command line to its exit
VARIABLES
    phase,         \* "off", "failed", "constructed", "running" or "exited"
    events,        \* what the host and its applications did, in order
    do_restore,    \* TeahazApplication.do_restore
    host_raised,   \* the exception that ended the startup
    exits,         \* how many times Pagoda.exit was called
    launched       \* how the host was started, and with what

hostvars == <<phase, events, do_restore, host_raised, exits, launched>>

\* a channel switch running beside a callback
VARIABLES
    sw    \* the _switch_channel call: where it is, its channel and messages

racevars == <<sw>>

allvars == <<vars, sendvars, concvars, appvars, errvars, hostvars, racevars>>

(* ---------------- sequences ---------------- *)
Range(s) == {s[i] : i \in 1..Len(s)}

Front(s) == SubSeq(s, 1, Len(s) - 1)

Last(s) == s[Len(s)]

\* index of the first occurrence of x in s, 0 when absent
IndexOf(s, x) ==
    IF x \in Range(s) THEN CHOOSE i \in 1..Len(s) : s[i] = x /\ \A j \in 1..(i - 1) : s[j] # x
    ELSE 0

\* list.remove(x) on a list that holds x: drops the first occurrence
ListRemove(s, x) ==
    LET i == IndexOf(s, x) IN SubSeq(s, 1, i - 1) \o SubSeq(s, i + 1, Len(s))

\* one step of a stable insertion sort keyed on send_time: x goes after every
\* element of the sorted list t whose key is not greater
InsertByTime(t, x) ==
    LET n == Cardinality({i \in 1..Len(t) : t[i].send_time <= x.send_time})
    IN  SubSeq(t, 1, n) \o <<x>> \o SubSeq(t, n + 1, Len(t))

\* list.sort(key=lambda msg: msg.send_time): stable, ascending
RECURSIVE SortBySendTime(_)
SortBySendTime(s) ==
    IF s = <<>> THEN <<>> ELSE InsertByTime(SortBySendTime(Front(s)), Last(s))

(* ---------------- MessageBox ---------------- *)
\* MessageBox.__contains__
BoxContains(box, msg) == msg \in Range(box)

\* remove_msg that forgets to drop the message
remove_msg_keeps(box, msg) == box

\* MessageBox.remove_msg, for a message the box holds
remove_msg(box, msg) == ListRemove(box, msg)

\* MessageBox.add_message without the sort
box_add_message_unsorted(box, message) == Append(box, message)

\* MessageBox.add_message
box_add_message(box, message) == SortBySendTime(Append(box, message))

(* ---------------- ChatroomWindow ---------------- *)
\* the window's fields as one record, so that add_message can be folded over a history
Window == [conv_box |-> conv_box, _sent_messages |-> _sent_messages,
           _previous_box |-> _previous_box, _previous_message |-> _previous_message,
           raised |-> raised]

\* the fields as _switch_channel resets them before it replays the history
EmptyWindow == [conv_box |-> <<>>, _sent_messages |-> << >>,
                _previous_box |-> NoBox, _previous_message |-> None,
                raised |-> "none"]

\* dict without one key
DictDel(d, k) == [x \in (DOMAIN d) \ {k} |-> d[x]]

\* dict with d[k] = v
DictSet(d, k, v) == [x \in (DOMAIN d) \cup {k} |-> IF x = k THEN v ELSE d[x]]

\* the join test with the window taken as 10 (minutes) instead of 600 seconds
JoinsPrevious_minutes(message, prev) ==
    /\ message.username = prev.username
    /\ message.send_time - prev.send_time < 10

\* the test that lets a message join the previous box
JoinsPrevious(message, prev) ==
    /\ message.username = prev.username
    /\ message.send_time - prev.send_time < GROUP_WINDOW

\* add_message, first part: a message whose uid is in the pending index has its
\* pending twin removed from the recorded box; list.remove raises ValueError
\* when the box does not hold it
Reconcile(w, message) ==
    IF message.uid \in DOMAIN w._sent_messages
    THEN LET e == w._sent_messages[message.uid] IN
         IF BoxContains(w.conv_box[e.box], e.sent)
         THEN [w EXCEPT !.conv_box[e.box] = remove_msg(@, e.sent),
                        !._sent_messages = DictDel(@, message.uid)]
         ELSE [w EXCEPT !.raised = "ValueError"]
    ELSE w

\* add_message, second part: join the previous box, or open the first box
Place(w, message) ==
    LET prev == w._previous_message IN
    IF prev # None
    THEN IF JoinsPrevious(message, prev)
         THEN IF w._previous_box = NoBox
              THEN [w EXCEPT !.raised = "AssertionError"]
              ELSE [w EXCEPT !.conv_box[w._previous_box] = box_add_message(@, message)]
         ELSE w
    ELSE [w EXCEPT !.conv_box = Append(@, <<message>>),
                   !._previous_box = Len(w.conv_box) + 1]

\* the third part without the is_delivered test: every message is indexed
Remember_always(w, message) ==
    IF w._previous_box = NoBox
    THEN [w EXCEPT !.raised = "AssertionError"]
    ELSE [w EXCEPT !._previous_message = message,
                   !._sent_messages =
                       DictSet(@, message.uid, [sent |-> message, box |-> w._previous_box])]

\* add_message, third part: remember the message, index it when undelivered
Remember(w, message) ==
    IF w._previous_box = NoBox
    THEN [w EXCEPT !.raised = "AssertionError"]
    ELSE LET w1 == [w EXCEPT !._previous_message = message] IN
         IF ~message.is_delivered
         THEN [w1 EXCEPT !._sent_messages =
                  DictSet(@, message.uid, [sent |-> message, box |-> w._previous_box])]
         ELSE w1

\* ChatroomWindow.add_message
add_message(w, message) ==
    LET w0 == [w EXCEPT !.raised = "none"]
        w1 == Reconcile(w0, message)
    IN  IF w1.raised # "none" THEN w1
        ELSE LET w2 == Place(w1, message) IN
             IF w2.raised # "none" THEN w2
             ELSE Remember(w2, message)

\* the loop of _switch_channel: add_message on each message of the history,
\* ended by the first exception
RECURSIVE Replay(_, _)
Replay(w, messages) ==
    IF messages = <<>> THEN w
    ELSE LET w1 == add_message(w, Head(messages)) IN
         IF w1.raised # "none" THEN w1 ELSE Replay(w1, Tail(messages))

\* how many messages of the history the loop passed to add_message
RECURSIVE Replayed(_, _)
Replayed(w, messages) ==
    IF messages = <<>> THEN 0
    ELSE LET w1 == add_message(w, Head(messages)) IN
         IF w1.raised # "none" THEN 1 ELSE 1 + Replayed(w1, Tail(messages))

\* the message histories (channel.messages) a channel may hold when it is
\* switched to: none, two messages of one author, messages of two authors
Histories ==
    LET alice0 == [uid |-> "p1", username |-> "alice", send_time |-> 0, is_delivered |-> TRUE]
        alice10 == [uid |-> "s42", username |-> "alice", send_time |-> 10, is_delivered |-> TRUE]
        bob10 == [uid |-> "s42", username |-> "bob", send_time |-> 10, is_delivered |-> TRUE]
    IN  {<<>>, <<alice0, alice10>>, <<alice0, bob10>>}

\* ChatroomWindow._switch_channel for a channel that is not None (None returns
\* at once and changes nothing), channel.messages being `messages`
switch_channel(channel, messages) ==
    LET w == Replay(EmptyWindow, messages) IN
    /\ active_channel' = channel
    /\ conv_box' = w.conv_box
    /\ _sent_messages' = w._sent_messages
    /\ _previous_box' = w._previous_box
    /\ _previous_message' = w._previous_message
    /\ raised' = w.raised
    /\ header' = IF w.raised = "none" THEN channel ELSE header
    /\ log' = SubSeq(messages, 1, Replayed(EmptyWindow, messages))

(* ---------------- actions ---------------- *)
\* a MSG_NEW or MSG_SENT event: the chatroom calls add_message(message)
AddMessageOf(message) ==
    /\ Len(log) < MaxLog
    /\ LET w == add_message(Window, message) IN
       /\ conv_box' = w.conv_box
       /\ _sent_messages' = w._sent_messages
       /\ _previous_box' = w._previous_box
       /\ _previous_message' = w._previous_message
       /\ raised' = w.raised
    /\ log' = Append(log, message)
    /\ UNCHANGED <<active_channel, header>>

AddMessage ==
    \E message \in Message :
        AddMessageOf(message) /\ UNCHANGED <<sendvars, concvars, appvars, errvars, hostvars, racevars>>

\* the user picks a channel in the utility window
SwitchChannel ==
    \E channel \in Channels, messages \in Histories :
        switch_channel(channel, messages) /\ UNCHANGED <<sendvars, concvars, appvars, errvars, hostvars, racevars>>

\* ChatroomWindow.__init__ on a chatroom whose first channel has no messages
\* yet: empty fields, header set, then _switch_channel(chatroom.channels[0])
ChatInit ==
    /\ active_channel = "c1"
    /\ header = "c1"
    /\ conv_box = EmptyWindow.conv_box
    /\ _sent_messages = EmptyWindow._sent_messages
    /\ _previous_box = EmptyWindow._previous_box
    /\ _previous_message = EmptyWindow._previous_message
    /\ raised = EmptyWindow.raised
    /\ log = <<>>

(* ---------------- sending ---------------- *)
Texts == {"hello"}

\* the uid and the send_time the chatroom gives to the message of the n-th send
SendUids == <<"p1", "s42", "p3">>

SendTimes == <<0, 10, 10>>

\* the message of MSG_SENT for the n-th send: shown before the server has it
PendingOf(n) ==
    [uid |-> SendUids[n], username |-> chatroom_username,
     send_time |-> SendTimes[n], is_delivered |-> FALSE]

\* the message of MSG_NEW for the n-th send: the server's echo
ConfirmedOf(n) == [PendingOf(n) EXCEPT !.is_delivered = TRUE]

\* a message of another user, pushed by the server
ForeignMessage ==
    [uid |-> "b7", username |-> "bob", send_time |-> 10, is_delivered |-> TRUE]

SendInit ==
    /\ field = ""
    /\ submits = 0
    /\ sends = <<>>
    /\ transport = <<>>

\* the user types into the message field
TypeMessage ==
    /\ field = ""
    /\ submits < MaxSends
    /\ \E text \in Texts : field' = text
    /\ UNCHANGED <<submits, sends, transport, vars, concvars, appvars, errvars, hostvars, racevars>>

\* _send_message with two threads started for one submit
send_message_twice ==
    IF field = ""
    THEN UNCHANGED <<field, sends>>
    ELSE /\ sends' = sends \o
                     << [submit |-> submits + 1, text |-> field,
                         channel |-> active_channel, stage |-> "dispatched"],
                        [submit |-> submits + 1, text |-> field,
                         channel |-> active_channel, stage |-> "dispatched"] >>
         /\ field' = ""

\* ChatroomWindow._send_message: an empty field returns at once, any other
\* value starts one thread running chatroom.send(value) and clears the field
send_message ==
    IF field = ""
    THEN UNCHANGED <<field, sends>>
    ELSE /\ sends' = Append(sends, [submit |-> submits + 1, text |-> field,
                                    channel |-> active_channel, stage |-> "dispatched"])
         /\ field' = ""

\* ENTER in the message field
SendMessage ==
    /\ submits < MaxSends
    /\ submits' = submits + 1
    /\ send_message
    /\ UNCHANGED <<transport, vars, concvars, appvars, errvars, hostvars, racevars>>

\* the thread of the n-th send runs chatroom.send: the text goes to the
\* transport and the MSG_SENT callback shows the message as pending
ThreadSendOf(n) ==
    /\ sends[n].stage = "dispatched"
    /\ sends' = [sends EXCEPT ![n].stage = "sent"]
    /\ transport' = Append(transport, [submit |-> sends[n].submit, text |-> sends[n].text])
    /\ AddMessageOf(PendingOf(n))
    /\ UNCHANGED <<field, submits, concvars, appvars, errvars, hostvars, racevars>>

ThreadSend == \E n \in 1..Len(sends) : ThreadSendOf(n)

\* the server's echo of the n-th send arrives: MSG_NEW callback
EchoOf(n) ==
    /\ sends[n].stage = "sent"
    /\ sends' = [sends EXCEPT ![n].stage = "echoed"]
    /\ AddMessageOf(ConfirmedOf(n))
    /\ UNCHANGED <<field, submits, transport, concvars, appvars, errvars, hostvars, racevars>>

Echo == \E n \in 1..Len(sends) : EchoOf(n)

\* a message of another user arrives: MSG_NEW callback
Foreign ==
    /\ AddMessageOf(ForeignMessage)
    /\ UNCHANGED <<sendvars, concvars, appvars, errvars, hostvars, racevars>>

(* ---------------- concurrent callbacks ---------------- *)
Threads == {1, 2}

ConcInit ==
    /\ pc = [t \in Threads |-> "idle"]
    /\ tmsg = [t \in Threads |-> None]
    /\ base = EmptyWindow

\* the window's fields after a statement group of add_message
SetWindow(w) ==
    /\ conv_box' = w.conv_box
    /\ _sent_messages' = w._sent_messages
    /\ _previous_box' = w._previous_box
    /\ _previous_message' = w._previous_message
    /\ raised' = w.raised

\* a callback thread enters add_message(message)
Begin(t, message) ==
    /\ pc[t] = "idle"
    /\ Len(log) < MaxLog
    /\ pc' = [pc EXCEPT ![t] = "reconcile"]
    /\ tmsg' = [tmsg EXCEPT ![t] = message]
    /\ base' = IF \A u \in Threads : pc[u] = "idle" THEN Window ELSE base
    /\ log' = Append(log, message)
    /\ UNCHANGED <<conv_box, _sent_messages, _previous_box, _previous_message,
                   raised, active_channel, header, sendvars, appvars, errvars, hostvars, racevars>>

\* the statement group of add_message a thread is at
PartAt(at, w, message) ==
    CASE at = "reconcile" -> Reconcile(w, message)
      [] at = "place" -> Place(w, message)
      [] at = "remember" -> Remember(w, message)

\* the thread runs one statement group (lines 311-316, 318-336, 338-342) of
\* add_message; an exception ends the callback
Step(t, at, next) ==
    /\ pc[t] = at
    /\ LET w == PartAt(at, [Window EXCEPT !.raised = "none"], tmsg[t]) IN
       /\ SetWindow(w)
       /\ pc' = [pc EXCEPT ![t] = IF w.raised = "none" THEN next ELSE "done"]
    /\ UNCHANGED <<tmsg, base, log, active_channel, header, sendvars, appvars, errvars, hostvars, racevars>>

ThreadBegin == \E t \in Threads, message \in Message : Begin(t, message)

ThreadReconcile == \E t \in Threads : Step(t, "reconcile", "place")

ThreadPlace == \E t \in Threads : Step(t, "place", "remember")

ThreadRemember == \E t \in Threads : Step(t, "remember", "done")

(* ---------------- a channel switch beside a callback ---------------- *)
\* _switch_channel on the UI thread while thread 1 runs add_message. A box
\* that set_widgets([]) takes out of the feed lives on while _previous_box or
\* the pending index refers to it: here conv_box keeps such boxes in front,
\* sw.hidden counts them, and the feed on display is what comes after them.
RaceInit ==
    sw = [pc |-> "idle", channel |-> "c1", messages |-> <<>>, next |-> 1, hidden |-> 0]

\* the event callback add_message(message) begins on thread 1
CallbackBegin ==
    /\ pc[1] = "idle"
    /\ \E message \in Message : Begin(1, message)

\* thread 1 runs its next statement group of add_message
CallbackStep ==
    \/ Step(1, "reconcile", "place")
    \/ Step(1, "place", "remember")
    \/ Step(1, "remember", "done")

\* the user picks a channel: _switch_channel(channel) is entered
SwitchBegin ==
    /\ sw.pc = "idle"
    /\ \E channel \in Channels, messages \in Histories :
          sw' = [pc |-> "reset", channel |-> channel, messages |-> messages,
                 next |-> 1, hidden |-> 0]
    /\ UNCHANGED <<vars, sendvars, concvars, appvars, errvars, hostvars>>

\* lines 287-291: the active channel is set, the pending index and the
\* previous box and message are reset
SwitchReset ==
    /\ sw.pc = "reset"
    /\ active_channel' = sw.channel
    /\ _sent_messages' = EmptyWindow._sent_messages
    /\ _previous_box' = EmptyWindow._previous_box
    /\ _previous_message' = EmptyWindow._previous_message
    /\ log' = <<>>
    /\ sw' = [sw EXCEPT !.pc = "clear"]
    /\ UNCHANGED <<conv_box, header, raised,
                   sendvars, concvars, appvars, errvars, hostvars>>

\* line 293: conv_box.set_widgets([])
SwitchClear ==
    /\ sw.pc = "clear"
    /\ sw' = [sw EXCEPT !.pc = "replay", !.hidden = Len(conv_box)]
    /\ UNCHANGED <<conv_box, _sent_messages, _previous_box, _previous_message, active_channel,
                   header, raised, log, sendvars, concvars, appvars, errvars, hostvars>>

\* lines 294-295: the next message of the channel goes through add_message;
\* an exception ends the switch
SwitchReplay ==
    /\ sw.pc = "replay"
    /\ sw.next <= Len(sw.messages)
    /\ LET w == add_message(Window, sw.messages[sw.next]) IN
       /\ SetWindow(w)
       /\ sw' = [sw EXCEPT !.next = @ + 1,
                           !.pc = IF w.raised = "none" THEN "replay" ELSE "failed"]
    /\ log' = Append(log, sw.messages[sw.next])
    /\ UNCHANGED <<active_channel, header, sendvars, concvars, appvars, errvars, hostvars>>

\* line 297: after the last message, _update_header()
SwitchHeader ==
    /\ sw.pc = "replay"
    /\ sw.next > Len(sw.messages)
    /\ header' = active_channel
    /\ sw' = [sw EXCEPT !.pc = "done"]
    /\ UNCHANGED <<conv_box, _sent_messages, _previous_box, _previous_message,
                   active_channel, raised, log,
                   sendvars, concvars, appvars, errvars, hostvars>>

(* ---------------- the application and its windows ---------------- *)
\* pagoda/applications/application.py, pagoda/applications/teahaz/__init__.py
\* and pagoda/runtime.py. A window is the number it was created with.
MENUBAR == 1

\* what a submitted login or create_chatroom returns to the output handler
LoginResults == {"None", "Chatroom"}

\* the fields the handlers read and write
App ==
    [windows |-> windows, manager |-> manager,
     active_windows |-> active_windows, raised |-> "none"]

\* ptg.Window(...): the next window, of the given kind
NewWindow(a, kind) == [a EXCEPT !.windows = Append(@, kind)]

\* WindowManager.add(window)
manager_add(a, window) == [a EXCEPT !.manager = @ \cup {window}]

\* Window.close(): the manager drops the window
window_close(a, window) == [a EXCEPT !.manager = @ \ {window}]

\* close tearing the window down before it is unregistered
close_states_teardown_first(a, window) ==
    IF window \notin Range(a.active_windows)
    THEN << [a EXCEPT !.raised = "ValueError"] >>
    ELSE LET b == window_close(a, window) IN
         << b, [b EXCEPT !.active_windows = ListRemove(@, window)] >>

\* the states PagodaApplication.close(window) goes through: the error for a
\* window that is not in active_windows; otherwise the state after
\* active_windows.remove(window), then the state after window.close()
close_states(a, window) ==
    IF window \notin Range(a.active_windows)
    THEN << [a EXCEPT !.raised = "ValueError"] >>
    ELSE LET b == [a EXCEPT !.active_windows = ListRemove(@, window)] IN
         << b, window_close(b, window) >>

\* close with the window torn down before the ownership test
close_teardown_first(a, window) ==
    IF window \notin Range(a.active_windows)
    THEN [window_close(a, window) EXCEPT !.raised = "ValueError"]
    ELSE window_close([a EXCEPT !.active_windows = ListRemove(@, window)], window)

\* PagodaApplication.close(window)
close(a, window) ==
    Last(close_states(a, window))

\* construct_window that forgets to register the picker
construct_window_unregistered(a) ==
    NewWindow(a, "picker")

\* TeahazApplication.construct_window: the picker is built, appended to
\* active_windows and returned (it is the last of a.windows)
construct_window(a) ==
    LET b == NewWindow(a, "picker") IN
    [b EXCEPT !.active_windows = Append(@, Len(b.windows))]

\* TeahazApplication._start_flow(method): the form of the method
start_flow(a) ==
    LET b == NewWindow(a, "form")
        window == Len(b.windows)
    IN  manager_add([b EXCEPT !.active_windows = Append(@, window)], window)

\* the runner of a picker button: _start_flow(method), then close(window)
runner(a, window) == close(start_flow(a), window)

\* _go_back(window): a new picker is shown, then the form is closed
go_back(a, window) ==
    LET b == construct_window(a) IN
    close(manager_add(b, Len(b.windows)), window)

\* TeahazApplication._handle_output(caller, chatroom)
handle_output(a, caller, chatroom) ==
    IF chatroom = "None"
    THEN a
    ELSE LET b == NewWindow(a, "chatroom") IN
         close(manager_add(b, Len(b.windows)), caller)

\* the loop of PagodaApplication.stop from the i-th window on
RECURSIVE stop_from(_, _)
stop_from(a, i) ==
    IF i > Len(a.active_windows)
    THEN a
    ELSE LET window == a.active_windows[i] IN
         stop_from(IF window \in a.manager THEN window_close(a, window) ELSE a,
                   i + 1)

\* stop closing the first window only
stop_first(a) ==
    IF a.active_windows # <<>> /\ a.active_windows[1] \in a.manager
    THEN window_close(a, a.active_windows[1])
    ELSE a

\* TeahazApplication.stop, then PagodaApplication.stop
stop(a) ==
    stop_from(a, 1)

\* the handler's effect on the application's fields
SetApp(a) ==
    /\ windows' = a.windows
    /\ manager' = a.manager
    /\ active_windows' = a.active_windows
    /\ app_raised' = a.raised

\* Pagoda.__init__ with --no-restore: the menubar is shown, the application
\* is started with no chatroom and owns no window
AppInit ==
    /\ windows = <<"menubar">>
    /\ manager = {MENUBAR}
    /\ active_windows = <<>>
    /\ threads = <<>>
    /\ started = 0
    /\ app_raised = "none"
    /\ stopped = FALSE
    /\ stop_closed = {}

\* the windows of a kind the user can act on
Shown(kind) == {w \in manager : windows[w] = kind}

\* the menubar button of the application: self.add(app.construct_window())
MenubarButton ==
    /\ ~stopped
    /\ Len(windows) < MaxWindows
    /\ LET a == construct_window(App) IN SetApp(manager_add(a, Len(a.windows)))
    /\ UNCHANGED <<threads, started, stopped, stop_closed, vars, sendvars, concvars, errvars, hostvars, racevars>>

\* "Create a chatroom" or "Log into a chatroom" on a picker
PickerButton ==
    /\ ~stopped
    /\ Len(windows) < MaxWindows
    /\ \E window \in Shown("picker") : SetApp(runner(App, window))
    /\ UNCHANGED <<threads, started, stopped, stop_closed, vars, sendvars, concvars, errvars, hostvars, racevars>>

\* ESC on a form
GoBack ==
    /\ ~stopped
    /\ Len(windows) < MaxWindows
    /\ \E window \in Shown("form") : SetApp(go_back(App, window))
    /\ UNCHANGED <<threads, started, stopped, stop_closed, vars, sendvars, concvars, errvars, hostvars, racevars>>

\* Submit! on a form: a thread runs the method
Submit ==
    /\ ~stopped
    /\ started < MaxSubmits
    /\ \E window \in Shown("form") : threads' = Append(threads, window)
    /\ started' = started + 1
    /\ UNCHANGED <<windows, manager, active_windows, app_raised, stopped, stop_closed,
                   vars, sendvars, concvars, errvars, hostvars, racevars>>

\* a submitted method returns: its thread calls handle_output(window, result)
MethodReturns ==
    /\ ~stopped
    /\ \E i \in 1..Len(threads), chatroom \in LoginResults :
          /\ chatroom = "Chatroom" => Len(windows) < MaxWindows
          /\ SetApp(handle_output(App, threads[i], chatroom))
          /\ threads' = SubSeq(threads, 1, i - 1) \o SubSeq(threads, i + 1, Len(threads))
    /\ UNCHANGED <<started, stopped, stop_closed, vars, sendvars, concvars, errvars, hostvars, racevars>>

\* WindowManager.focused when no window has the focus
NoFocus == 0

\* close_window that closes whatever has the focus
close_window_any(a, focused) ==
    IF focused = NoFocus
    THEN a
    ELSE window_close(a, focused)

\* Pagoda.close_window: nothing is done when no window or the menubar has the
\* focus; any other focused window is closed
close_window(a, focused) ==
    IF focused = NoFocus \/ focused = MENUBAR
    THEN a
    ELSE window_close(a, focused)

\* CTRL_W with the given focus
CloseWindowOf(focused) ==
    /\ ~stopped
    /\ SetApp(close_window(App, focused))
    /\ UNCHANGED <<threads, started, stopped, stop_closed, vars, sendvars, concvars, errvars, hostvars, racevars>>

\* CTRL_W, bound to Pagoda.close_window
CloseWindow ==
    \E focused \in manager \cup {NoFocus} : CloseWindowOf(focused)

\* Pagoda.exit: the application is stopped
Exit ==
    /\ ~stopped
    /\ SetApp(stop(App))
    /\ stopped' = TRUE
    /\ stop_closed' = manager \ manager'
    /\ UNCHANGED <<threads, started, vars, sendvars, concvars, errvars, hostvars, racevars>>

(* ---------------- errors ---------------- *)
\* what teahaz passes to _error on Event.ERROR (a requests.Response, with the
\* text of its json body) and on Event.NETWORK_EXCEPTION (an exception, with
\* the name of its type)
Results ==
    { [kind |-> "Response", cause |-> "permission denied"],
      [kind |-> "Exception", cause |-> "ConnectionError"],
      [kind |-> "Exception", cause |-> "Timeout"] }

\* the fields _error reads and writes
Errors ==
    [_previous_exception |-> _previous_exception,
     error_windows |-> error_windows, errors_shown |-> errors_shown]

\* Pagoda.error(caller, content): a modal window with the content is added
host_error(e, report) ==
    [e EXCEPT !.error_windows = Append(@, report),
              !.errors_shown = @ \cup {Len(e.error_windows) + 1}]

\* _error without the test on the previous exception
error_unthrottled(e, result, report) ==
    IF result.kind = "Response"
    THEN host_error(e, report)
    ELSE host_error([e EXCEPT !._previous_exception = result.cause], report)

\* TeahazApplication._error(result, method, req_kwargs), for the report-th
\* report: a Response always goes to the host; an exception whose type name
\* is that of _previous_exception returns, any other is remembered and goes
\* to the host
error(e, result, report) ==
    IF result.kind = "Response"
    THEN host_error(e, report)
    ELSE IF e._previous_exception = result.cause
         THEN e
         ELSE host_error([e EXCEPT !._previous_exception = result.cause], report)

\* TeahazApplication.__init__: no exception seen, nothing reported
ErrInit ==
    /\ _previous_exception = "NoneType"
    /\ reports = <<>>
    /\ error_windows = <<>>
    /\ errors_shown = {}

\* an Event.ERROR or Event.NETWORK_EXCEPTION of the teacup
ReportError ==
    /\ Len(reports) < MaxErrors
    /\ \E result \in Results :
          /\ reports' = Append(reports, result)
          /\ LET e == error(Errors, result, Len(reports) + 1) IN
             /\ _previous_exception' = e._previous_exception
             /\ error_windows' = e.error_windows
             /\ errors_shown' = e.errors_shown
    /\ UNCHANGED <<vars, sendvars, concvars, appvars, hostvars, racevars>>

\* the Dismiss button of an error window
Dismiss ==
    /\ \E window \in errors_shown : errors_shown' = errors_shown \ {window}
    /\ UNCHANGED <<_previous_exception, reports, error_windows,
                   vars, sendvars, concvars, appvars, hostvars, racevars>>

(* ---------------- the host: command line, startup, exit ---------------- *)
\* pagoda/__main__.py and pagoda/runtime.py
\* applications.list_applications(), by app_id
application_managers == <<"teahaz">>

\* the words of a command line
Tokens == {"-a", "--app", "-l", "teahaz", "nope", "--no-restore"}

\* the words argparse reads as options
Options == {"-a", "--app", "-l", "--no-restore"}

\* sys.argv[1:]
Argv == UNION {[1..n -> Tokens] : n \in 0..MaxArgs}

\* s[from:to] of Python
PySlice(s, from, to) ==
    LET lo == IF from > Len(s) THEN Len(s) ELSE from
        hi == IF to > Len(s) THEN Len(s) ELSE to
    IN  IF hi <= lo THEN <<>> ELSE SubSeq(s, lo + 1, hi)

\* the loop of __main__.parse_arguments from the i-th word of sys.argv[1:]:
\* how many words come before the first -a or --app
RECURSIVE WordsBeforeApp(_, _)
WordsBeforeApp(args, i) ==
    IF i > Len(args) \/ args[i] \in {"-a", "--app"}
    THEN 0
    ELSE 1 + WordsBeforeApp(args, i + 1)

\* __main__.parse_arguments: sys.argv[1:ending_index] is for the host's
\* parser, sys.argv[ending_index:] is what remains
main_parse_arguments(argv) ==
    LET ending_index == 3 + WordsBeforeApp(PySlice(argv, 1, Len(argv)), 1) IN
    [host |-> PySlice(argv, 1, ending_index),
     remaining |-> PySlice(argv, ending_index, Len(argv))]

\* the host's ArgumentParser from the i-th word on: -a/--app takes one value
\* that is no option, -l/--launch takes none, any other word is an error
RECURSIVE host_parser(_, _, _)
host_parser(args, i, namespace) ==
    IF i > Len(args)
    THEN namespace
    ELSE IF args[i] = "-l"
    THEN host_parser(args, i + 1, [namespace EXCEPT !.launch = TRUE])
    ELSE IF args[i] \in {"-a", "--app"} /\ i < Len(args) /\ args[i + 1] \notin Options
    THEN host_parser(args, i + 2, [namespace EXCEPT !.app = args[i + 1]])
    ELSE [namespace EXCEPT !.ok = FALSE]

\* one entry of the record of what was done
Event(op, app, args) == [op |-> op, app |-> app, args |-> args]

\* the host while it is constructed and run
Host == [events |-> events, raised |-> host_raised, do_restore |-> do_restore]

Did(h, event) == [h EXCEPT !.events = Append(@, event)]

\* parse_arguments that leaves do_restore alone
teahaz_parse_arguments_keep(h, args) ==
    LET g == Did(h, Event("parse_arguments", "teahaz", args)) IN
    IF Range(args) \subseteq {"--no-restore"}
    THEN g
    ELSE [g EXCEPT !.raised = "SystemExit"]

\* TeahazApplication.parse_arguments(args): the module's ArgumentParser knows
\* --no-restore (and --invite, never given here); do_restore is set from it
teahaz_parse_arguments(h, args) ==
    LET g == Did(h, Event("parse_arguments", "teahaz", args)) IN
    IF Range(args) \subseteq {"--no-restore"}
    THEN [g EXCEPT !.do_restore = "--no-restore" \notin Range(args)]
    ELSE [g EXCEPT !.raised = "SystemExit"]

\* lines 73-74 of start() on a teacup: _error is subscribed to Event.ERROR
\* and to Event.NETWORK_EXCEPTION, and (no chatroom being restored) start()
\* returns
Subscribed(h) ==
    Did(Did(h, Event("subscribe_all", "teahaz", <<"ERROR", "NETWORK_EXCEPTION">>)),
        Event("start_returned", "teahaz", <<>>))

\* TeahazApplication.start(): self._cup is a new Teacup when do_restore is
\* not set and the restored one when it is; _restore() returns None when
\* there is no save data, and the subscribe_all on None fails
teahaz_start(h, env) ==
    LET g == Did(h, Event("start", "teahaz", <<>>)) IN
    IF ~g.do_restore
    THEN Subscribed(Did(g, Event("teacup", "teahaz", <<>>)))
    ELSE IF env.save_exists
    THEN Subscribed(Did(g, Event("restore", "teahaz", <<>>)))
    ELSE [g EXCEPT !.raised = "AttributeError"]

\* stop() closing the windows before it saves and stops the teacup
teahaz_stop_close_first(h, env) ==
    LET g == Did(Did(h, Event("stop", "teahaz", <<>>)),
                 Event("close_windows", "teahaz", <<>>))
        d == IF g.do_restore /\ ~env.os_nt
             THEN Did(g, Event("save", "teahaz", <<>>))
             ELSE g
    IN  Did(Did(d, Event("cup_stop", "teahaz", <<>>)),
            Event("stop_returned", "teahaz", <<>>))

\* TeahazApplication.stop(): the chatrooms are saved when do_restore is set
\* and the system is not Windows, the teacup is stopped, and
\* PagodaApplication.stop() closes the windows
teahaz_stop(h, env) ==
    LET g == Did(h, Event("stop", "teahaz", <<>>))
        d == IF g.do_restore /\ ~env.os_nt
             THEN Did(g, Event("save", "teahaz", <<>>))
             ELSE g
    IN  Did(Did(Did(d, Event("cup_stop", "teahaz", <<>>)),
                Event("close_windows", "teahaz", <<>>)),
            Event("stop_returned", "teahaz", <<>>))

\* the loop `for starting_app in self.applications: starting_app.start()`
\* from the i-th application on; an exception ends it
RECURSIVE start_from(_, _, _)
start_from(h, env, i) ==
    IF i > Len(application_managers) \/ h.raised # "none"
    THEN h
    ELSE start_from(teahaz_start(h, env), env, i + 1)

\* the loop `for app in self.applications: app.stop()` from the i-th on
RECURSIVE stop_apps_from(_, _, _)
stop_apps_from(h, env, i) ==
    IF i > Len(application_managers)
    THEN h
    ELSE stop_apps_from(teahaz_stop(h, env), env, i + 1)

\* the applications constructed by Pagoda.__init__, in order
Constructed(h) ==
    [h EXCEPT !.events = @ \o [i \in 1..Len(application_managers) |->
                                 Event("construct", application_managers[i], <<>>)]]

\* _find_app_by_id taking the first application for an unknown id
find_app_by_id_first(app_id) ==
    application_managers[1]

\* Pagoda._find_app_by_id(app_id): the application with the id, or KeyError
find_app_by_id(app_id) ==
    IF \E i \in 1..Len(application_managers) : application_managers[i] = app_id
    THEN app_id
    ELSE "KeyError"

\* __init__ starting the applications before the arguments are parsed
pagoda_init_start_first(host, remaining_args, app_id, env) ==
    LET h == start_from(Constructed(host), env, 1) IN
    IF app_id = "None" \/ h.raised # "none"
    THEN h
    ELSE IF find_app_by_id(app_id) = "KeyError"
    THEN [h EXCEPT !.raised = "KeyError"]
    ELSE teahaz_parse_arguments(h, remaining_args)

\* Pagoda.__init__(remaining_args, app_id): the applications are constructed,
\* the one named by app_id parses the remaining arguments, all are started
pagoda_init(host, remaining_args, app_id, env) ==
    LET h == Constructed(host) IN
    IF app_id = "None"
    THEN start_from(h, env, 1)
    ELSE IF find_app_by_id(app_id) = "KeyError"
    THEN [h EXCEPT !.raised = "KeyError"]
    ELSE start_from(teahaz_parse_arguments(h, remaining_args), env, 1)

\* the call Pagoda(*positional): __init__ takes remaining_args and app_id
Pagoda(host, positional, env) ==
    IF Len(positional) \notin {1, 2}
    THEN [host EXCEPT !.raised = "TypeError"]
    ELSE pagoda_init(host, positional[1],
                     IF Len(positional) = 2 THEN positional[2] ELSE "None", env)

\* exit ending the display loop before the applications are stopped
exit_loop_first(h, env) ==
    stop_apps_from(Did(h, Event("loop_exit", "", <<>>)), env, 1)

\* Pagoda.exit(): every application is stopped, then WindowManager.exit()
exit(h, env) ==
    Did(stop_apps_from(h, env, 1), Event("loop_exit", "", <<>>))

\* what the host finds on the machine: save data, the operating system
Environments == [save_exists : BOOLEAN, os_nt : BOOLEAN]

SetHost(h) ==
    /\ events' = h.events
    /\ host_raised' = h.raised
    /\ do_restore' = h.do_restore
    /\ phase' = IF h.raised = "none" THEN "constructed" ELSE "failed"

\* before the process runs; do_restore is the class attribute
HostInit ==
    /\ phase = "off"
    /\ events = <<>>
    /\ do_restore = TRUE
    /\ host_raised = "none"
    /\ exits = 0
    /\ launched = [via |-> "none"]

\* __main__.main(): the command line is split and parsed, then
\* Pagoda(remaining, args.app, args.launch) is called
Main ==
    /\ phase = "off"
    /\ \E args \in Argv, env \in Environments :
          LET split == main_parse_arguments(<<"pagoda">> \o args)
              namespace == host_parser(split.host, 1,
                                       [ok |-> TRUE, app |-> "None", launch |-> FALSE])
              h == Did(Host, Event("host_parser", "", split.host))
          IN  /\ launched' = [via |-> "main", args |-> args, app_id |-> namespace.app,
                              env |-> env]
              /\ IF namespace.ok
                 THEN SetHost(Pagoda(h, <<split.remaining, namespace.app,
                                          namespace.launch>>, env))
                 ELSE SetHost([h EXCEPT !.raised = "SystemExit"])
    /\ UNCHANGED <<exits, vars, sendvars, concvars, appvars, errvars, racevars>>

\* Pagoda(remaining_args, app_id) called by a program that embeds the host
Construct ==
    /\ phase = "off"
    /\ \E remaining_args \in Argv, app_id \in {"None", "teahaz", "nope"},
          env \in Environments :
          /\ launched' = [via |-> "direct", args |-> remaining_args, app_id |-> app_id,
                          env |-> env]
          /\ SetHost(Pagoda(Host, <<remaining_args, app_id>>, env))
    /\ UNCHANGED <<exits, vars, sendvars, concvars, appvars, errvars, racevars>>

\* pagoda.run(): the display loop is entered
Run ==
    /\ phase = "constructed"
    /\ phase' = "running"
    /\ events' = Append(events, Event("run", "", <<>>))
    /\ UNCHANGED <<do_restore, host_raised, exits, launched,
                   vars, sendvars, concvars, appvars, errvars, racevars>>

\* Pagoda.exit() is called
HostExit ==
    /\ phase \in {"constructed", "running", "exited"}
    /\ exits < MaxExits
    /\ exits' = exits + 1
    /\ phase' = "exited"
    /\ events' = exit(Host, launched.env).events
    /\ UNCHANGED <<do_restore, host_raised, launched,
                   vars, sendvars, concvars, appvars, errvars, racevars>>

(* ---------------- specifications ---------------- *)
Init == ChatInit /\ SendInit /\ ConcInit /\ AppInit /\ ErrInit /\ HostInit /\ RaceInit

\* the feed under events and channel switches, each add_message run as a whole
Next == AddMessage \/ SwitchChannel

Spec == Init /\ [][Next]_vars

\* the feed together with the user's sends and their events
SendNext == TypeMessage \/ SendMessage \/ ThreadSend \/ Echo \/ Foreign \/ SwitchChannel

SendSpec == Init /\ [][SendNext]_allvars

\* two add_message callbacks interleaved
ConcNext == ThreadBegin \/ ThreadReconcile \/ ThreadPlace \/ ThreadRemember

ConcSpec == Init /\ [][ConcNext]_allvars

\* the application's windows under the user's keys and buttons
AppNext ==
    \/ MenubarButton \/ PickerButton \/ GoBack \/ Submit
    \/ MethodReturns \/ CloseWindow \/ Exit

AppSpec == Init /\ [][AppNext]_allvars

\* the errors of the application and their windows
ErrNext == ReportError \/ Dismiss

ErrSpec == Init /\ [][ErrNext]_allvars

\* the host from its start to its exit
HostNext == Main \/ Construct \/ Run \/ HostExit

HostSpec == Init /\ [][HostNext]_allvars

\* one add_message callback beside one _switch_channel
RaceNext ==
    \/ CallbackBegin \/ CallbackStep
    \/ SwitchBegin \/ SwitchReset \/ SwitchClear \/ SwitchReplay \/ SwitchHeader

RaceSpec == Init /\ [][RaceNext]_allvars

TypeOK ==
    /\ conv_box \in Seq(Seq(Message))
    /\ DOMAIN _sent_messages \subseteq Uids
    /\ _previous_box \in 0..Len(conv_box)
    /\ _previous_message \in Message \cup {None}
    /\ active_channel \in Channels
    /\ raised \in {"none", "ValueError", "AssertionError"}

(* ---------------- vocabulary of the properties ---------------- *)
\* the groups of the feed that hold message m
GroupsHolding(m) == {b \in 1..Len(conv_box) : m \in Range(conv_box[b])}

\* the positions <<group, index>> of the feed
Positions == {<<b, i>> \in (1..Len(conv_box)) \X (1..MaxLog) : i <= Len(conv_box[b])}

\* m's uid was never passed to add_message in the current view
NewUid(m) == \A i \in 1..Len(log) : log[i].uid # m.uid

\* s with x put in at index i
InsertAt(s, i, x) == SubSeq(s, 1, i - 1) \o <<x>> \o SubSeq(s, i, Len(s))

\* the partition of the messages into groups
Partition(boxes) == {Range(boxes[b]) : b \in 1..Len(boxes)}

\* the log in the order given by the permutation p
Reordered(p) == [i \in 1..Len(log) |-> log[p[i]]]

(* ---------------- C1 ---------------- *)
\* C1: every message passed to add_message and not superseded by a later
\* add_message with the same uid is contained in exactly one group of the feed.
C1_NoMessageLost ==
    \A i \in 1..Len(log) :
        (\A j \in (i + 1)..Len(log) : log[j].uid # log[i].uid)
            => Cardinality(GroupsHolding(log[i])) = 1

(* ---------------- C2 ---------------- *)
\* C2: the feed never holds a PENDING message and a CONFIRMED message with
\* the same uid at the same time.
C2_NoPendingAndConfirmed ==
    \A p \in Positions, q \in Positions :
        LET a == conv_box[p[1]][p[2]]
            b == conv_box[q[1]][q[2]]
        IN  ~(a.uid = b.uid /\ ~a.is_delivered /\ b.is_delivered)

(* ---------------- C3 ---------------- *)
\* C3: add_message with a confirmed message that the feed already holds as
\* CONFIRMED changes neither the groups nor the pending index.
C3_ReinsertIsNoOp ==
    [][\A m \in Message :
        (/\ AddMessageOf(m)
         /\ m.is_delivered
         /\ GroupsHolding(m) # {})
            => (conv_box' = conv_box /\ _sent_messages' = _sent_messages)]_vars

(* ---------------- C4 ---------------- *)
\* C4: a CONFIRMED message whose uid matches a PENDING entry of the feed takes
\* the group and index of that entry, every other message keeps its place,
\* and the uid leaves the pending index.
C4_ReconcileInPlace ==
    [][\A m \in Message :
        (/\ AddMessageOf(m)
         /\ m.is_delivered
         /\ m.uid \in DOMAIN _sent_messages
         /\ m = [_sent_messages[m.uid].sent EXCEPT !.is_delivered = TRUE]
         /\ BoxContains(conv_box[_sent_messages[m.uid].box], _sent_messages[m.uid].sent))
            => LET e == _sent_messages[m.uid]
                   i == IndexOf(conv_box[e.box], e.sent)
               IN  /\ conv_box' = [conv_box EXCEPT ![e.box][i] = m]
                   /\ m.uid \notin DOMAIN _sent_messages']_vars

(* ---------------- C5 ---------------- *)
\* the scenario of C5: a view with no prior messages, a pending send, then
\* its confirmation under uid `assigned`
C5_Scenario(assigned) ==
    /\ Len(log) = 2
    /\ ~log[1].is_delivered
    /\ log[1].uid = "p1"
    /\ log[2].is_delivered
    /\ log[2].uid = assigned
    /\ log[2].username = log[1].username

C6_OtherAuthorStartsGroup ==
    [][\A m \in Message :
        (/\ AddMessageOf(m)
         /\ NewUid(m)
         /\ conv_box # <<>>
         /\ Last(conv_box) # <<>>
         /\ Last(Last(conv_box)).username # m.username)
            => conv_box' = Append(conv_box, <<m>>)]_vars

(* ---------------- C7 ---------------- *)
\* C7: a message of the same author sent 600 seconds or more after the last
\* message of the most recent group starts a new group.
C7_LateMessageStartsGroup ==
    [][\A m \in Message :
        (/\ AddMessageOf(m)
         /\ NewUid(m)
         /\ conv_box # <<>>
         /\ Last(conv_box) # <<>>
         /\ Last(Last(conv_box)).username = m.username
         /\ m.send_time - Last(Last(conv_box)).send_time >= GROUP_WINDOW)
            => conv_box' = Append(conv_box, <<m>>)]_vars

C9_OneAuthorPerGroup ==
    \A b \in 1..Len(conv_box) :
        \A i \in 1..Len(conv_box[b]), j \in 1..Len(conv_box[b]) :
            conv_box[b][i].username = conv_box[b][j].username

(* ---------------- C10 ---------------- *)
\* C10: confirmed messages with distinct uids end in the same partition into
\* groups whatever the order in which add_message received them.
C10_OrderIndependent ==
    (/\ raised = "none"
     /\ \A i \in 1..Len(log) : log[i].is_delivered
     /\ \A i \in 1..Len(log), j \in 1..Len(log) : i # j => log[i].uid # log[j].uid)
        => \A p \in Permutations(1..Len(log)) :
              Partition(Replay(EmptyWindow, Reordered(p)).conv_box) = Partition(conv_box)

(* ---------------- more vocabulary ---------------- *)
\* the messages of all groups, in feed order
RECURSIVE Flatten(_)
Flatten(boxes) == IF boxes = <<>> THEN <<>> ELSE Head(boxes) \o Flatten(Tail(boxes))

\* how often m occurs in the sequence s
CountIn(s, m) == Cardinality({i \in 1..Len(s) : s[i] = m})

\* the message list s is in non-decreasing send_time order
SortedByTime(s) == \A i \in 1..Len(s), j \in 1..Len(s) : i < j => s[i].send_time <= s[j].send_time

\* t is s, or s with x put in somewhere
SameOrInserted(s, t, x) == t = s \/ \E i \in 1..(Len(s) + 1) : t = InsertAt(s, i, x)

(* ---------------- C11 ---------------- *)
\* C11: the message list of every group is in non-decreasing send_time
\* order, also after out-of-order and tied deliveries, and an add_message
\* changes the message list of at most one group.
C11_GroupsSortedLocally ==
    /\ [](\A b \in 1..Len(conv_box) : SortedByTime(conv_box[b]))
    /\ [][\A m \in Message :
            AddMessageOf(m) =>
                /\ Len(conv_box') >= Len(conv_box)
                /\ Cardinality({b \in 1..Len(conv_box) : conv_box'[b] # conv_box[b]}) <= 1]_vars

\* a message older than the one before it, and one tied with it, share a group
C11_Witness ==
    /\ Len(conv_box) = 1
    /\ Len(conv_box[1]) = 3
    /\ Len(log) = 3
    /\ log[2].send_time < log[1].send_time
    /\ log[3].send_time = log[2].send_time
    /\ \A i \in 1..3 : CountIn(conv_box[1], log[i]) >= 1
    /\ SortedByTime(conv_box[1])

(* ---------------- C12 ---------------- *)
\* C12: the group sequence of the feed holds no group with zero messages.
C12_NoEmptyGroup == \A b \in 1..Len(conv_box) : conv_box[b] # <<>>

(* ---------------- C13 ---------------- *)
\* C13: when _switch_channel(c) has returned, every entry of the pending
\* index belongs to an undelivered message of c's history, and the groups of
\* the feed hold exactly the messages of c's history, each exactly once.
C13_SwitchRebuildsFeed ==
    [][\A c \in Channels, h \in Histories :
        (switch_channel(c, h) /\ raised' = "none")
            => /\ \A u \in DOMAIN _sent_messages' :
                     \E i \in 1..Len(h) : h[i].uid = u /\ ~h[i].is_delivered
               /\ \A m \in Message : CountIn(Flatten(conv_box'), m) = CountIn(h, m)]_vars

(* ---------------- C16 ---------------- *)
\* what C16 says of a step: add_message of a confirmed message whose uid is
\* not in the pending index returns normally, leaves the pending index as it
\* was and keeps every old group b as Kept(b) says
C16_Step(m, Kept(_)) ==
    (/\ AddMessageOf(m)
     /\ m.is_delivered
     /\ m.uid \notin DOMAIN _sent_messages)
        => /\ raised' = "none"
           /\ _sent_messages' = _sent_messages
           /\ Len(conv_box') >= Len(conv_box)
           /\ \A b \in 1..Len(conv_box) : Kept(b)

\* C16 as stated: every message already in the feed keeps its group and its
\* index in that group.
C16_UnmatchedKeepsIndex ==
    [][\A m \in Message :
        LET Kept(b) == \A i \in 1..Len(conv_box[b]) :
                           /\ i <= Len(conv_box'[b])
                           /\ conv_box'[b][i] = conv_box[b][i]
        IN  C16_Step(m, Kept)]_vars

\* C16 amended: every message already in the feed keeps its group and its
\* order relative to the other messages of that group.
C16_UnmatchedKeepsOrder ==
    [][\A m \in Message :
        LET Kept(b) == SameOrInserted(conv_box[b], conv_box'[b], m)
        IN  C16_Step(m, Kept)]_vars

\* an unmatched confirmation has joined a group that held a message
C16_Witness ==
    /\ Len(log) = 2
    /\ raised = "none"
    /\ log[2].is_delivered
    /\ log[1].is_delivered
    /\ log[2].uid # log[1].uid
    /\ conv_box = << <<log[1], log[2]>> >>
    /\ _sent_messages = << >>

(* ---------------- C14 ---------------- *)
\* C14: no step, a channel switch included, cancels a send (a send thread
\* stays until it has handed its text to the transport), and the MSG_SENT /
\* MSG_NEW event of a send dispatched in another channel than the one now
\* shown adds nothing to the groups on display.
C14_SendsStayInTheirChannel ==
    /\ [][\A n \in 1..Len(sends) :
            /\ n <= Len(sends')
            /\ sends'[n].submit = sends[n].submit
            /\ sends'[n].channel = sends[n].channel
            /\ sends'[n].stage = "dispatched" => sends[n].stage = "dispatched"]_allvars
    /\ [][\A n \in 1..Len(sends) :
            /\ (ThreadSendOf(n) /\ sends[n].channel # active_channel)
                  => CountIn(Flatten(conv_box'), PendingOf(n))
                        <= CountIn(Flatten(conv_box), PendingOf(n))
            /\ (EchoOf(n) /\ sends[n].channel # active_channel)
                  => CountIn(Flatten(conv_box'), ConfirmedOf(n))
                        <= CountIn(Flatten(conv_box), ConfirmedOf(n))]_allvars

(* ---------------- C15 ---------------- *)
\* C15: when two concurrent add_message callbacks have both ended, the feed
\* and the pending index are those of one of the two sequential orders.
C15_CallbacksSerialisable ==
    (\A t \in Threads : pc[t] = "done")
        => \E s \in {add_message(add_message(base, tmsg[1]), tmsg[2]),
                     add_message(add_message(base, tmsg[2]), tmsg[1])} :
              /\ conv_box = s.conv_box
              /\ _sent_messages = s._sent_messages

(* ---------------- C17 ---------------- *)
\* the step neither rebuilds the view nor passes a message with uid u to add_message
C17_NoNewsOf(u) ==
    \/ log' = log
    \/ /\ Len(log') = Len(log) + 1
       /\ SubSeq(log', 1, Len(log)) = log
       /\ Last(log').uid # u

\* C17: what reaches the transport comes from one user submit each, no
\* submit reaches it twice, only the thread of a send not yet sent adds to
\* it, and a pending entry stays in the feed and in the pending index over
\* every step that neither rebuilds the view nor brings a message with its uid.
C17_NoAutomaticRetry ==
    /\ [](/\ \A i \in 1..Len(transport) :
                /\ transport[i].submit \in 1..submits
                /\ \E n \in 1..Len(sends) :
                      /\ sends[n].submit = transport[i].submit
                      /\ sends[n].text = transport[i].text
                      /\ sends[n].stage # "dispatched"
          /\ \A i \in 1..Len(transport), j \in 1..Len(transport) :
                i # j => transport[i].submit # transport[j].submit)
    /\ [][transport' # transport
            => \E n \in 1..Len(sends) :
                  /\ sends[n].stage = "dispatched"
                  /\ transport' = Append(transport, [submit |-> sends[n].submit,
                                                     text |-> sends[n].text])]_allvars
    /\ [][\A u \in DOMAIN _sent_messages :
            (/\ BoxContains(conv_box[_sent_messages[u].box], _sent_messages[u].sent)
             /\ C17_NoNewsOf(u))
                => /\ u \in DOMAIN _sent_messages'
                   /\ _sent_messages'[u] = _sent_messages[u]
                   /\ BoxContains(conv_box'[_sent_messages[u].box], _sent_messages[u].sent)]_allvars

\* an unconfirmed send outlived a later message: sent once, still pending
C17_Witness ==
    /\ Len(sends) = 1
    /\ sends[1].stage = "sent"
    /\ transport = << [submit |-> sends[1].submit, text |-> sends[1].text] >>
    /\ log = <<PendingOf(1), ForeignMessage>>
    /\ "p1" \in DOMAIN _sent_messages
    /\ BoxContains(conv_box[_sent_messages["p1"].box], PendingOf(1))
(* ---------------- C18 ---------------- *)
\* C18: close(window) with a window that is not in active_windows ends with
\* the error (ValueError naming the window and the application), leaves the
\* window as the manager had it, and leaves active_windows as it was.
C18_CloseRefusesForeignWindow ==
    \A window \in 1..Len(windows) :
        window \notin Range(active_windows)
            => LET a == close(App, window) IN
               /\ a.raised = "ValueError"
               /\ a.manager = manager
               /\ a.active_windows = active_windows
               /\ a.windows = windows

\* a close of a form that was no longer owned has failed, and a window the
\* application does not own is on display
C18_Witness ==
    /\ app_raised = "ValueError"
    /\ \E window \in manager \ {MENUBAR} : window \notin Range(active_windows)

(* ---------------- C19 ---------------- *)
\* C19: once stop() has returned, no window of active_windows is still shown
\* by the window manager.
C19_StopClosesAll ==
    stopped => \A i \in 1..Len(active_windows) : active_windows[i] \notin manager

\* stop has closed two windows of the application
C19_Witness ==
    /\ stopped
    /\ Cardinality(stop_closed) >= 2
    /\ stop_closed \subseteq Range(active_windows)

(* ---------------- C20 ---------------- *)
\* C20: the window construct_window returns is in active_windows when the
\* call returns, in every state the call can be made in and in every handler
\* that makes it (the menubar button, ESC on a form).
C20_ConstructRegisters ==
    /\ [](LET a == construct_window(App) IN
            Len(a.windows) \in Range(a.active_windows))
    /\ [][(Len(windows') = Len(windows) + 1 /\ windows'[Len(windows')] = "picker")
            => Len(windows') \in Range(active_windows')]_allvars

\* a picker built by ESC on a form is shown and registered
C20_Witness ==
    \E window \in Shown("picker") :
        /\ window \in Range(active_windows)
        /\ \E form \in 1..(window - 1) : windows[form] = "form"

C27_CloseWindowSparesMenubar ==
    /\ MENUBAR \in manager
    /\ \A focused \in manager \cup {NoFocus} :
          LET a == close_window(App, focused) IN
          /\ a.manager \subseteq manager
          /\ manager \ a.manager \subseteq {focused}
          /\ focused \in {NoFocus, MENUBAR} => a.manager = manager
          /\ focused \notin {NoFocus, MENUBAR} => focused \notin a.manager
          /\ a.active_windows = active_windows
          /\ a.raised = "none"

\* CTRL_W has closed a window of the application while two others stay
C27_Witness ==
    /\ ~stopped
    /\ \E window \in Range(active_windows) : window \notin manager
    /\ Cardinality(manager) >= 3

(* ---------------- C24 ---------------- *)
\* the windows opened for the i-th report
WindowsFor(i) == {w \in 1..Len(error_windows) : error_windows[w] = i}

C25_NoErrorDropped ==
    \A i \in 1..Len(reports) :
        IF i > 1 /\ reports[i - 1].cause = reports[i].cause
        THEN Cardinality(WindowsFor(i)) <= 1
        ELSE Cardinality(WindowsFor(i)) = 1

(* ---------------- vocabulary of the host's properties ---------------- *)
\* where the host did op
Indices(op) == {k \in 1..Len(events) : events[k].op = op}

\* where the host did op on the application app
IndicesOf(op, app) == {k \in Indices(op) : events[k].app = app}

IsStop(event) == event.op = "stop"

IsStopReturned(event) == event.op = "stop_returned"

\* the applications of a sequence of events
Apps(seq) == [i \in 1..Len(seq) |-> seq[i].app]

\* what was done between the exit of the display loop before k and k
SinceLastExit(k) ==
    LET before == {j \in Indices("loop_exit") : j < k}
        from == IF before = {} THEN 0
                ELSE CHOOSE j \in before : \A l \in before : l <= j
    IN  SubSeq(events, from + 1, k - 1)

\* the application ids that are registered
AppIds == Range(application_managers)

(* ---------------- C21 ---------------- *)
\* C21: whenever exit() ends the display loop, it has before that, in this
\* call, called stop() on every registered application in registration order
\* and every one of these calls has returned.
C21_StopsBeforeLoopExit ==
    \A k \in Indices("loop_exit") :
        /\ Apps(SelectSeq(SinceLastExit(k), IsStop)) = application_managers
        /\ Apps(SelectSeq(SinceLastExit(k), IsStopReturned)) = application_managers
        /\ k > 1 /\ events[k - 1].op = "stop_returned"

\* exit() has run once on a host that was running and saves its chatrooms
C21_Witness ==
    /\ phase = "exited"
    /\ exits = 1
    /\ Indices("run") # {}
    /\ Indices("save") # {}
    /\ events[Len(events)].op = "loop_exit"

(* ---------------- C22 ---------------- *)
\* C22: once exit() has returned, a further exit() does nothing: nothing is
\* stopped, saved or torn down again and no error is raised.
C22_ExitIdempotent ==
    [][phase = "exited"
          => (events' = events /\ host_raised' = host_raised /\ phase' = phase)]_allvars

(* ---------------- C23 ---------------- *)
\* C23: start() runs at most once on every application and exactly once when
\* the construction succeeds; it runs after every application is constructed
\* and after the application named with app_id has parsed its arguments.
C23_StartOnceAfterSetup ==
    /\ \A app \in AppIds :
          /\ Cardinality(IndicesOf("start", app)) <= 1
          /\ phase \in {"constructed", "running", "exited"}
                => Cardinality(IndicesOf("start", app)) = 1
    /\ \A k \in Indices("start") :
          /\ \A app \in AppIds : \E j \in IndicesOf("construct", app) : j < k
          /\ \A j \in Indices("construct") \cup Indices("parse_arguments") : j < k
          /\ launched.app_id \in AppIds
                => \E j \in IndicesOf("parse_arguments", launched.app_id) : j < k

\* the host was constructed for --app teahaz --no-restore and has started it
C23_Witness ==
    /\ phase = "constructed"
    /\ launched.via = "direct"
    /\ launched.app_id = "teahaz"
    /\ launched.args = <<"--no-restore">>
    /\ IndicesOf("start", "teahaz") # {}

(* ---------------- C28 ---------------- *)
\* C28: for a command line with -a/--app followed by a module id, the host's
\* parser receives the words up to and including the id and the module's
\* parse_arguments receives the words after it, in order and unchanged;
\* without --app no module receives arguments.
C28_CommandLineSplit ==
    launched.via = "main" =>
        LET args == launched.args
            at == WordsBeforeApp(args, 1) + 1
        IN  /\ (at < Len(args) /\ args[at + 1] \in AppIds)
                  => /\ events[1] = Event("host_parser", "", SubSeq(args, 1, at + 1))
                     /\ \E k \in 1..Len(events) :
                           events[k] = Event("parse_arguments", args[at + 1],
                                             SubSeq(args, at + 2, Len(args)))
            /\ at > Len(args) => Indices("parse_arguments") = {}

(* ---------------- C29 ---------------- *)
\* C29: with an app id that no registered application has, the construction of
\* the host ends in an error, no parse_arguments and no start() has run, and
\* the display loop is not entered.
C29_UnknownAppFails ==
    (phase # "off" /\ launched.app_id \notin AppIds \cup {"None"})
        => /\ phase = "failed"
           /\ host_raised # "none"
           /\ Indices("parse_arguments") = {}
           /\ Indices("start") = {}
           /\ Indices("run") = {}

\* Pagoda(args, "nope") has constructed its applications and failed
C29_Witness ==
    /\ launched.via = "direct"
    /\ launched.app_id = "nope"
    /\ host_raised = "KeyError"
    /\ Indices("construct") # {}

(* ---------------- C30 ---------------- *)
\* C30: when the chat application has parsed --no-restore, no saved state is
\* restored by start() and none is written by stop(), for the whole run.
C30_NoRestoreNoSave ==
    (\E k \in IndicesOf("parse_arguments", "teahaz") :
          "--no-restore" \in Range(events[k].args))
        => /\ Indices("restore") = {}
           /\ Indices("save") = {}

\* the host ran with --no-restore on a machine with save data and has exited
C30_Witness ==
    /\ phase = "exited"
    /\ ~do_restore
    /\ launched.env = [save_exists |-> TRUE, os_nt |-> FALSE]
    /\ IndicesOf("start", "teahaz") # {}
    /\ IndicesOf("stop_returned", "teahaz") # {}

(* ---------------- C31 ---------------- *)
\* C31: close(window) on a window of active_windows first takes the window
\* out of active_windows, the manager still showing it, and only then has the
\* manager drop it: the teardown sees the window as no longer owned.
C31_UnregisterBeforeTeardown ==
    \A window \in Range(active_windows) :
        LET states == close_states(App, window) IN
        /\ Len(states) = 2
        /\ window \notin Range(states[1].active_windows)
        /\ states[1].manager = manager
        /\ states[2].active_windows = states[1].active_windows
        /\ window \notin states[2].manager
        /\ states[2].raised = "none"

\* a picker was closed by its button and the form it opened is owned and shown
C31_Witness ==
    /\ \E window \in 1..Len(windows) :
          /\ windows[window] = "picker"
          /\ window \notin Range(active_windows)
          /\ window \notin manager
    /\ \E window \in Range(active_windows) :
          windows[window] = "form" /\ window \in manager

C38_NoStaleWindow ==
    ~stopped => \A i \in 1..Len(active_windows) : active_windows[i] \in manager

(* ---------------- C33 ---------------- *)
\* C33: the MSG_SENT event of a send puts its pending message into a group of
\* the feed, and the confirmation of a send is applied only after that event.
C33_PendingBeforeConfirmed ==
    /\ [][\A n \in 1..Len(sends) :
            ThreadSendOf(n) => CountIn(Flatten(conv_box'), PendingOf(n)) >= 1]_allvars
    /\ [][\A n \in 1..Len(sends) :
            EchoOf(n) => \E i \in 1..Len(transport) : transport[i].submit = sends[n].submit]_allvars

(* ---------------- C36 ---------------- *)
\* C36: for every uid of the pending index, the recorded group is a group of
\* the feed and holds the recorded message.
C36_PendingIndexConsistent ==
    \A uid \in DOMAIN _sent_messages :
        /\ _sent_messages[uid].box \in 1..Len(conv_box)
        /\ BoxContains(conv_box[_sent_messages[uid].box], _sent_messages[uid].sent)

(* ---------------- C39 ---------------- *)
\* C39: ENTER on an empty message field starts no send and changes nothing;
\* on any other value it starts one send with that value for the channel
\* shown and clears the field, and changes nothing else.
C39_SubmitSendsOnce ==
    [][submits' = submits + 1
         => /\ UNCHANGED <<transport, vars>>
            /\ IF field = ""
               THEN UNCHANGED <<field, sends>>
               ELSE /\ Len(sends') = Len(sends) + 1
                    /\ SubSeq(sends', 1, Len(sends)) = sends
                    /\ sends'[Len(sends')].text = field
                    /\ sends'[Len(sends')].channel = active_channel
                    /\ sends'[Len(sends')].stage = "dispatched"
                    /\ field' = ""]_allvars

\* the empty field was submitted once and a text once
C39_Witness ==
    /\ submits = 2
    /\ Len(sends) = 1
    /\ sends[1].text = "hello"
    /\ field = ""

(* ---------------- C32 ---------------- *)
\* C32: every start() of the chat application returns, with a teacup (a new
\* or a restored one) that has _error subscribed to its errors and network
\* exceptions, whatever do_restore is and whether save data exists or not.
C32_StartLeavesSession ==
    \A k \in IndicesOf("start", "teahaz") :
        /\ k + 3 <= Len(events)
        /\ events[k + 1].op \in {"teacup", "restore"}
        /\ events[k + 2] = Event("subscribe_all", "teahaz", <<"ERROR", "NETWORK_EXCEPTION">>)
        /\ events[k + 3].op = "start_returned"

(* ---------------- C35 ---------------- *)
\* the call of stop() that event k belongs to begins at this event
StopCallOf(k) == CHOOSE c \in Indices("stop") :
                    c < k /\ \A d \in Indices("stop") : d < k => d <= c

\* C35: in every stop() of the chat application the windows are closed after
\* the teacup is stopped, the teacup is stopped after the chatrooms are saved,
\* and they are saved whenever do_restore is set and the system is not Windows.
C35_StopOrder ==
    \A k \in Indices("close_windows") :
        /\ \E c \in Indices("stop") : c < k
        /\ \E j \in Indices("cup_stop") :
              /\ StopCallOf(k) < j /\ j < k
              /\ \A i \in Indices("save") : (StopCallOf(k) < i /\ i < k) => i < j
              /\ (do_restore /\ ~launched.env.os_nt)
                    => \E i \in Indices("save") : StopCallOf(k) < i /\ i < j

\* a host that saves has exited: saved, teacup stopped, windows closed
C35_Witness ==
    /\ phase = "exited"
    /\ do_restore
    /\ Indices("save") # {}
    /\ Indices("cup_stop") # {}
    /\ Indices("close_windows") # {}

(* ---------------- C34 ---------------- *)
\* C34: however an add_message callback and a _switch_channel interleave, no
\* statement group of the callback raises, and when both have ended the feed,
\* the pending index and the previous box and message are those of the
\* callback run before the switch or of the callback run after it.
C34_SwitchRaceSafe ==
    /\ [][(pc[1] \notin {"idle", "done"} /\ pc'[1] # pc[1]) => raised' = "none"]_allvars
    /\ []((pc[1] = "done" /\ sw.pc = "done")
            => \E s \in {Replay(EmptyWindow, sw.messages),
                         add_message(Replay(EmptyWindow, sw.messages), tmsg[1])} :
                  /\ SubSeq(conv_box, sw.hidden + 1, Len(conv_box)) = s.conv_box
                  /\ DOMAIN _sent_messages = DOMAIN s._sent_messages
                  /\ \A uid \in DOMAIN _sent_messages :
                        /\ _sent_messages[uid].sent = s._sent_messages[uid].sent
                        /\ _sent_messages[uid].box = s._sent_messages[uid].box + sw.hidden
                  /\ _previous_box = IF s._previous_box = NoBox THEN NoBox
                                     ELSE s._previous_box + sw.hidden
                  /\ _previous_message = s._previous_message)

====
